---- MODULE Spec2Model ----
(***************************************************************************)
(* Comment threading and ordering of temi (src/src/comments.rs): the       *)
(* comparison of CommentResponse records, CommentResponseTable with its    *)
(* sort_comments and its navigation, the depth the post screen derives     *)
(* from a path, and the main loop (src/src/main.rs) with its screens, its   *)
(* page requests and its cache of comment tables.                          *)
(*                                                                         *)
(* A string is a tuple of one-character strings, so that split('.') and    *)
(* parse::<u64>() are computed character by character as the code does.    *)
(* Rust indices are 0-based, TLA+ sequences 1-based: Rust index i is       *)
(* position i + 1 here.  An Option is <<>> (None) or <<v>> (Some(v)).        *)
(***************************************************************************)
EXTENDS Integers, Sequences, FiniteSets, TLC

VARIABLES items, comment_id, page, level, selected, tabs, loaded, sorts,
          panicked, returned, num_comments, requests, responses, pages, pc,
          CURRENT_SCREEN, stop, posts, posts_state, comments, REFRESH,
          DOWNLOAD_POSTS, app_page, q_pressed

\* what a call leaves behind besides the table: whether it panicked, and
\* <<the operation called last, the value it returned>>
call_vars == <<panicked, returned>>

\* the main loop on the Post screen: the comment count of the selected post,
\* the pages requested so far, the records received so far, the vector each
\* answered request returned, and the place in the loop
fetch_vars == <<num_comments, requests, responses, pages, pc>>

\* the statics and the App of main: the current screen, the stop flag, the
\* posts table (its items and the selection of its TableState), app.comments
\* (post id -> table), the refresh and download flags, app.page, and whether
\* a 'q' key event waits at the head of the terminal's event queue
app_vars == <<CURRENT_SCREEN, stop, posts, posts_state, comments, REFRESH,
              DOWNLOAD_POSTS, app_page, q_pressed>>

vars == <<items, comment_id, page, level, selected, tabs, loaded, sorts,
          call_vars, fetch_vars, app_vars>>

(***************************************************************************)
(* Bounds of the model.                                                    *)
(***************************************************************************)
MaxItems == 3
MaxSorts == 2
MaxPermLen == 5
MaxLevel == 3
MaxFullPages == 2
MaxPage == 2

(***************************************************************************)
(* Characters and strings.                                                 *)
(***************************************************************************)
Digits == <<"0", "1", "2", "3", "4", "5", "6", "7", "8", "9">>

IsDigit(c) == \E i \in 1..10 : Digits[i] = c

DigitVal(c) == (CHOOSE i \in 1..10 : Digits[i] = c) - 1

\* The byte of a character, for the characters the inputs use.
CharCode(c) ==
    CASE c = "+" -> 43
      [] c = "-" -> 45
      [] c = "." -> 46
      [] IsDigit(c) -> 48 + DigitVal(c)
      [] c = ":" -> 58
      [] c = "T" -> 84
      [] c = "x" -> 120
      [] OTHER -> 127

None == <<>>

Some(v) == <<v>>

Ordering == {"Less", "Equal", "Greater"}

\* Ordering::then
Then(acc, other) == IF acc = "Equal" THEN other ELSE acc

\* Ord for u64 / usize
CmpInt(x, y) == IF x < y THEN "Less" ELSE IF x > y THEN "Greater" ELSE "Equal"

\* Ord for Option<u64>: None is less than every Some
CmpOpt(x, y) ==
    IF x = None
    THEN (IF y = None THEN "Equal" ELSE "Less")
    ELSE (IF y = None THEN "Greater" ELSE CmpInt(x[1], y[1]))

\* Ord for str: byte-wise lexicographic, a proper prefix is Less
RECURSIVE CmpStr(_, _)
CmpStr(s, t) ==
    IF s = <<>> THEN (IF t = <<>> THEN "Equal" ELSE "Less")
    ELSE IF t = <<>> THEN "Greater"
    ELSE IF CharCode(Head(s)) # CharCode(Head(t))
         THEN CmpInt(CharCode(Head(s)), CharCode(Head(t)))
         ELSE CmpStr(Tail(s), Tail(t))

\* str::split('.'): the segments between the dots; never empty, the empty
\* string splits into one empty segment.
RECURSIVE SplitFrom(_, _)
SplitFrom(s, cur) ==
    IF s = <<>> THEN <<cur>>
    ELSE IF Head(s) = "." THEN <<cur>> \o SplitFrom(Tail(s), <<>>)
    ELSE SplitFrom(Tail(s), Append(cur, Head(s)))

Split(s) == SplitFrom(s, <<>>)

\* str::parse::<u64>(): an optional '+' and then one or more decimal digits;
\* anything else is an error, None here.  (Values above u64::MAX are an
\* error too; the inputs of the model have at most seven digits.)
RECURSIVE DigitsValue(_, _)
DigitsValue(s, acc) ==
    IF s = <<>> THEN acc ELSE DigitsValue(Tail(s), 10 * acc + DigitVal(Head(s)))

ParseU64(seg) ==
    LET body == IF seg # <<>> /\ Head(seg) = "+" THEN Tail(seg) ELSE seg
    IN  IF body # <<>> /\ \A i \in 1..Len(body) : IsDigit(body[i])
        THEN Some(DigitsValue(body, 0))
        ELSE None

UnwrapOr(o, d) == IF o = None THEN d ELSE o[1]

\* path.split('.').map(|c| c.parse::<u64>().unwrap_or(0))
ParsedPath(path) ==
    LET segs == Split(path) IN [i \in 1..Len(segs) |-> UnwrapOr(ParseU64(segs[i]), 0)]

\* Iterator::nth(n) on a sequence: the element of Rust index n
Nth(s, n) == IF n + 1 <= Len(s) THEN Some(s[n + 1]) ELSE None

\* Iterator::position: the first Rust index whose element satisfies == v
Position(s, v) ==
    IF \E i \in 1..Len(s) : s[i] = v
    THEN Some((CHOOSE i \in 1..Len(s) : s[i] = v /\ \A j \in 1..(i - 1) : s[j] # v) - 1)
    ELSE None

\* usize::saturating_sub
SaturatingSub(x, y) == IF x >= y THEN x - y ELSE 0

MinOf(x, y) == IF x <= y THEN x ELSE y

\* Iterator::skip(n).take(k)
SkipTake(s, n, k) == SubSeq(s, n + 1, MinOf(Len(s), n + k))


(***************************************************************************)
(* CommentResponse: the fields the comparison and the table read.          *)
(* comment.id, comment.path, comment.published, counts.child_count (the    *)
(* Option already unwrapped to 0), counts.score and level.                 *)
(***************************************************************************)
\* Counts::child_count
child_count(r) == r.child_count

\* PartialEq for CommentResponse
eq(self, rhs) ==
    LET self_ids_len == Len(Split(self.path))
        rhs_ids_len == Len(Split(rhs.path))
        min_level == MinOf(self_ids_len - 1, rhs_ids_len - 1)
        self_id == Nth(ParsedPath(self.path), min_level)
        rhs_id == Nth(ParsedPath(rhs.path), min_level)
    IN  /\ self.level = rhs.level
        /\ self_id = rhs_id
        /\ self.published = rhs.published

\* the index of the record's id in its own path, 0 when it is not there
OwnPos_or_last(r) ==
    UnwrapOr(Position(ParsedPath(r.path), r.id), Len(ParsedPath(r.path)) - 1)

OwnPos(r) == UnwrapOr(Position(ParsedPath(r.path), r.id), 0)

\* the path element of index 1
Root(r) == Nth(ParsedPath(r.path), 1)

\* zip(..).fold(init, |acc, (s, r)| acc.then(s.cmp(&r)))
RECURSIVE ZipFold(_, _, _)
ZipFold(acc, s, r) ==
    IF s = <<>> \/ r = <<>> THEN acc
    ELSE ZipFold(Then(acc, CmpInt(Head(s), Head(r))), Tail(s), Tail(r))

\* ancestor_ord of partial_cmp: the roots, then the first level - 2 path
\* elements after the root, pair by pair
AncestorOrd_no_root(self, rhs) ==
    LET lvl == MinOf(SaturatingSub(OwnPos(self), 1), SaturatingSub(OwnPos(rhs), 1))
    IN  ZipFold("Equal",
                SkipTake(ParsedPath(self.path), 2, SaturatingSub(lvl, 2)),
                SkipTake(ParsedPath(rhs.path), 2, SaturatingSub(lvl, 2)))

AncestorOrd(self, rhs) ==
    LET self_pos == OwnPos(self)
        self_root == Root(self)
        rhs_pos == OwnPos(rhs)
        rhs_root == Root(rhs)
        lvl == MinOf(SaturatingSub(self_pos, 1), SaturatingSub(rhs_pos, 1))
    IN  ZipFold(CmpOpt(self_root, rhs_root),
                SkipTake(ParsedPath(self.path), 2, SaturatingSub(lvl, 2)),
                SkipTake(ParsedPath(rhs.path), 2, SaturatingSub(lvl, 2)))

partial_cmp_no_pos(self, rhs) ==
    Then(AncestorOrd(self, rhs),
    Then(CmpInt(child_count(self), child_count(rhs)),
    Then(CmpInt(self.id, rhs.id),
         CmpStr(self.published, rhs.published))))

partial_cmp_no_id(self, rhs) ==
    Then(AncestorOrd(self, rhs),
    Then(CmpInt(OwnPos(self), OwnPos(rhs)),
    Then(CmpInt(child_count(self), child_count(rhs)),
         CmpStr(self.published, rhs.published))))

partial_cmp_id_first(self, rhs) ==
    Then(AncestorOrd(self, rhs),
    Then(CmpInt(OwnPos(self), OwnPos(rhs)),
    Then(CmpInt(self.id, rhs.id),
    Then(CmpInt(child_count(self), child_count(rhs)),
         CmpStr(self.published, rhs.published)))))

partial_cmp_unwrap(self, rhs) ==
    IF Position(ParsedPath(self.path), self.id) = None
       \/ Position(ParsedPath(rhs.path), rhs.id) = None
    THEN "Panic"
    ELSE Then(AncestorOrd(self, rhs),
         Then(CmpInt(OwnPos(self), OwnPos(rhs)),
         Then(CmpInt(child_count(self), child_count(rhs)),
         Then(CmpInt(self.id, rhs.id),
              CmpStr(self.published, rhs.published)))))

\* PartialOrd for CommentResponse (always Some)
partial_cmp(self, rhs) ==
    LET self_id == self.id
        self_pos == OwnPos(self)
        rhs_id == rhs.id
        rhs_pos == OwnPos(rhs)
        ancestor_ord == AncestorOrd(self, rhs)
        self_child == child_count(self)
        rhs_child == child_count(rhs)
    IN  Then(ancestor_ord,
        Then(CmpInt(self_pos, rhs_pos),
        Then(CmpInt(self_child, rhs_child),
        Then(CmpInt(self_id, rhs_id),
             CmpStr(self.published, rhs.published)))))

Depth_sub1(path) == SaturatingSub(Len(Split(path)), 1)

\* the depth the post screen indents a comment by:
\* path.split('.').count().saturating_sub(2)
Depth(path) == SaturatingSub(Len(Split(path)), 2)

\* the comparison of the sort_by of the post screen: the path element of
\* index 1 (0 when absent), then the number of path elements
DrawCmp(cr, cs) ==
    LET cr_ids == ParsedPath(cr.path)
        cs_ids == ParsedPath(cs.path)
        cr_first == UnwrapOr(Nth(cr_ids, 1), 0)
        cs_first == UnwrapOr(Nth(cs_ids, 1), 0)
    IN  Then(CmpInt(cr_first, cs_first), CmpInt(Len(cr_ids), Len(cs_ids)))

(***************************************************************************)
(* Inputs.  The server writes a path as the decimal ids joined by dots.    *)
(***************************************************************************)
RECURSIVE ToDigits(_)
ToDigits(n) == IF n < 10 THEN <<Digits[n + 1]>> ELSE Append(ToDigits(n \div 10), Digits[(n % 10) + 1])

RECURSIVE FormatPath(_)
FormatPath(ids) ==
    IF Len(ids) = 1 THEN ToDigits(ids[1])
    ELSE FormatPath(SubSeq(ids, 1, Len(ids) - 1)) \o <<".">> \o ToDigits(ids[Len(ids)])

Rec(id, path, cc, pub, sc) ==
    [id |-> id, path |-> path, child_count |-> cc, published |-> pub, score |-> sc,
     level |-> None]

Pub1 == <<"0", "3", "T", "0", "9">>
Pub2 == <<"0", "4", "T", "0", "6">>

\* records of a well-formed forest: the path is 0, the ancestors, the own id
TreeRecords ==
    { Rec(5, FormatPath(<<0, 5>>), 2, Pub1, 0),
      Rec(6, FormatPath(<<0, 5, 6>>), 1, Pub1, 0),
      Rec(9, FormatPath(<<0, 5, 9>>), 0, Pub1, 0),
      Rec(7, FormatPath(<<0, 5, 6, 7>>), 0, Pub1, 0),
      Rec(15, FormatPath(<<0, 5, 6, 15>>), 0, Pub2, 0),
      Rec(14, FormatPath(<<0, 5, 9, 14>>), 0, Pub1, 0),
      Rec(12, FormatPath(<<0, 5, 6, 7, 12>>), 0, Pub2, 0),
      Rec(13, FormatPath(<<0, 5, 9, 14, 13>>), 0, Pub1, 0),
      Rec(10, FormatPath(<<0, 10>>), 1, Pub2, 0) }

\* a comment received a second time (on a later page) with another score or
\* another published string, and a comment with the id of another one
RepeatedRecords ==
    { Rec(7, FormatPath(<<0, 5, 6, 7>>), 0, Pub1, 1),
      Rec(7, FormatPath(<<0, 5, 6, 7>>), 0, Pub2, 0),
      Rec(7, FormatPath(<<0, 5, 9, 7>>), 0, Pub1, 0) }

\* records whose path is empty, has a non-numeric segment, does not contain
\* the own id, or contains it before the end
OddRecords ==
    { Rec(0, <<>>, 0, <<>>, 0),
      Rec(7, <<"0", ".", "x", ".", "7">>, 0, Pub1, 0),
      Rec(20, FormatPath(<<0, 5, 6>>), 0, Pub1, 0),
      Rec(0, FormatPath(<<0, 5, 0>>), 0, Pub1, 0) }

Pool == TreeRecords \cup RepeatedRecords \cup OddRecords

\* the records of the tables that are navigated: a comment, its child, and
\* a record with id 0 (the id of CommentResponse::new(), which
\* test_sort_comments builds its vector from) and a non-numeric segment
NavRecords ==
    { Rec(5, FormatPath(<<0, 5>>), 2, Pub1, 0),
      Rec(6, FormatPath(<<0, 5, 6>>), 1, Pub1, 0),
      Rec(0, <<"0", ".", "x", ".", "6">>, 0, Pub1, 0) }

\* the scenario of the specification: the paths 0.10, 0.10.11, 0.5, 0.5.6.7, 0.5.6
Scenario ==
    << Rec(10, FormatPath(<<0, 10>>), 1, Pub2, 0),
       Rec(11, FormatPath(<<0, 10, 11>>), 0, Pub1, 0),
       Rec(5, FormatPath(<<0, 5>>), 2, Pub1, 0),
       Rec(7, FormatPath(<<0, 5, 6, 7>>), 0, Pub1, 0),
       Rec(6, FormatPath(<<0, 5, 6>>), 1, Pub1, 0) >>

\* test_sort_comments: the vector `comments`; every id and child count is the
\* default 0
TestComments ==
    << Rec(0, <<"0", ".", "1", "5", "1", "0", "3", "1", "3", ".", "1", "5", "1", "1", "4", "4", "4", ".", "1", "5", "1", "2", "1", "6", "5">>,
           0, <<"2", "0", "2", "3", "-", "0", "8", "-", "0", "4", "T", "1", "9", ":", "5", "9", ":", "2", "9", ".", "9", "8", "2", "9", "2", "1">>, 0),
       Rec(0, <<"0", ".", "1", "5", "1", "0", "3", "1", "3", ".", "1", "5", "1", "1", "4", "4", "4">>,
           0, <<"2", "0", "2", "3", "-", "0", "8", "-", "0", "4", "T", "1", "9", ":", "2", "9", ":", "4", "4", ".", "5", "3", "9", "4", "6", "2">>, 0),
       Rec(0, <<"0", ".", "1", "5", "1", "0", "3", "1", "3">>,
           0, <<"2", "0", "2", "3", "-", "0", "8", "-", "0", "4", "T", "1", "8", ":", "4", "5", ":", "1", "6", ".", "1", "2", "6", "5", "3", "9">>, 0),
       Rec(0, <<"0", ".", "1", "4", "0", "2", "4", "2", "9", ".", "1", "4", "3", "6", "0", "1", "4", ".", "1", "4", "9", "2", "4", "2", "2">>,
           0, <<"2", "0", "2", "3", "-", "0", "8", "-", "0", "4", "T", "0", "6", ":", "2", "3", ":", "0", "5", ".", "5", "7", "7", "4", "6", "5">>, 0),
       Rec(0, <<"0", ".", "1", "4", "5", "9", "8", "1", "0", ".", "1", "4", "6", "1", "1", "1", "6">>,
           0, <<"2", "0", "2", "3", "-", "0", "8", "-", "0", "3", "T", "0", "8", ":", "5", "9", ":", "1", "2", ".", "2", "2", "7", "4", "0", "4">>, 0),
       Rec(0, <<"0", ".", "1", "4", "5", "8", "7", "2", "9">>,
           0, <<"2", "0", "2", "3", "-", "0", "8", "-", "0", "3", "T", "0", "6", ":", "2", "7", ":", "5", "2", ".", "3", "7", "2", "1", "3", "3">>, 0),
       Rec(0, <<"0", ".", "1", "4", "5", "1", "0", "6", "5", ".", "1", "4", "5", "6", "8", "4", "1", ".", "1", "4", "6", "1", "0", "2", "4">>,
           0, <<"2", "0", "2", "3", "-", "0", "8", "-", "0", "3", "T", "0", "8", ":", "5", "1", ":", "5", "9", ".", "0", "5", "1", "6", "4", "5">>, 0),
       Rec(0, <<"0", ".", "1", "4", "5", "9", "8", "1", "0">>,
           0, <<"2", "0", "2", "3", "-", "0", "8", "-", "0", "3", "T", "0", "7", ":", "3", "3", ":", "0", "9", ".", "5", "6", "2", "6", "8", "5">>, 0),
       Rec(0, <<"0", ".", "1", "4", "0", "2", "4", "2", "9", ".", "1", "4", "3", "6", "0", "1", "4", ".", "1", "4", "6", "3", "3", "7", "1">>,
           0, <<"2", "0", "2", "3", "-", "0", "8", "-", "0", "3", "T", "1", "1", ":", "1", "4", ":", "2", "5", ".", "7", "8", "0", "9", "1", "1">>, 0) >>

\* test_sort_comments: the paths of `exp_comments`
TestExpPaths ==
    << <<"0", ".", "1", "4", "0", "2", "4", "2", "9", ".", "1", "4", "3", "6", "0", "1", "4", ".", "1", "4", "6", "3", "3", "7", "1">>,
       <<"0", ".", "1", "4", "0", "2", "4", "2", "9", ".", "1", "4", "3", "6", "0", "1", "4", ".", "1", "4", "9", "2", "4", "2", "2">>,
       <<"0", ".", "1", "4", "5", "1", "0", "6", "5", ".", "1", "4", "5", "6", "8", "4", "1", ".", "1", "4", "6", "1", "0", "2", "4">>,
       <<"0", ".", "1", "4", "5", "8", "7", "2", "9">>,
       <<"0", ".", "1", "4", "5", "9", "8", "1", "0">>,
       <<"0", ".", "1", "4", "5", "9", "8", "1", "0", ".", "1", "4", "6", "1", "1", "1", "6">>,
       <<"0", ".", "1", "5", "1", "0", "3", "1", "3">>,
       <<"0", ".", "1", "5", "1", "0", "3", "1", "3", ".", "1", "5", "1", "1", "4", "4", "4">>,
       <<"0", ".", "1", "5", "1", "0", "3", "1", "3", ".", "1", "5", "1", "1", "4", "4", "4", ".", "1", "5", "1", "2", "1", "6", "5">> >>

\* the orders a vector of records can arrive in
RemoveAt(s, i) == SubSeq(s, 1, i - 1) \o SubSeq(s, i + 1, Len(s))

RECURSIVE PermsOf(_)
PermsOf(s) ==
    IF Len(s) <= 1 THEN {s}
    ELSE UNION { { <<s[i]>> \o p : p \in PermsOf(RemoveAt(s, i)) } : i \in 1..Len(s) }

ScenarioOrders == PermsOf(Scenario)

\* the sequences of at most n elements of S
SeqsUpTo(S, n) == UNION { [1..k -> S] : k \in 0..n }

\* every record of the inputs
Records ==
    Pool \cup NavRecords \cup { Scenario[i] : i \in 1..Len(Scenario) }
         \cup { TestComments[i] : i \in 1..Len(TestComments) }

\* partial_cmp of every two records of the inputs, computed once
OrderOf == [a \in Records |-> [b \in Records |-> partial_cmp(a, b)]]

\* Ord for CommentResponse: partial_cmp(rhs), which is never None
cmp(self, rhs) == OrderOf[self][rhs]

\* eq of every two records of the inputs, computed once
EqualityOf == [a \in Records |-> [b \in Records |-> eq(a, b)]]

(***************************************************************************)
(* slice::sort with T: Ord.  A stable sort; on slices of at most 20        *)
(* elements the standard library runs an insertion sort, each element      *)
(* moved left while it is less than its left neighbour.                    *)
(***************************************************************************)
RECURSIVE InsertTail_le(_, _)
InsertTail_le(s, x) ==
    IF s = <<>> \/ cmp(x, s[Len(s)]) = "Greater"
    THEN Append(s, x)
    ELSE Append(InsertTail_le(SubSeq(s, 1, Len(s) - 1), x), s[Len(s)])

RECURSIVE InsertTail(_, _)
InsertTail(s, x) ==
    IF s = <<>> \/ cmp(x, s[Len(s)]) # "Less"
    THEN Append(s, x)
    ELSE Append(InsertTail(SubSeq(s, 1, Len(s) - 1), x), s[Len(s)])

RECURSIVE StableSort(_)
StableSort(s) ==
    IF s = <<>> THEN <<>>
    ELSE InsertTail(StableSort(SubSeq(s, 1, Len(s) - 1)), s[Len(s)])

\* slice::sort_by with the comparison of the post screen, stable as well
RECURSIVE DrawInsert(_, _)
DrawInsert(s, x) ==
    IF s = <<>> \/ DrawCmp(x, s[Len(s)]) # "Less"
    THEN Append(s, x)
    ELSE Append(DrawInsert(SubSeq(s, 1, Len(s) - 1), x), s[Len(s)])

RECURSIVE DrawSort(_)
DrawSort(s) ==
    IF s = <<>> THEN <<>>
    ELSE DrawInsert(DrawSort(SubSeq(s, 1, Len(s) - 1)), s[Len(s)])

(***************************************************************************)
(* The App and the statics of the program as main has them when it enters  *)
(* its loop.  A post is its id and its counts.comments; app.comments is a  *)
(* function of the post id, None where the map has no table.               *)
(***************************************************************************)
\* the ids of the posts the instance serves
PostIds == {1, 2}

\* HashMap::new()
NoTables == [id \in PostIds |-> None]

\* App::new(instance_url, posts): page 1, the posts with TableState::default(),
\* no comment table
App_new(received) ==
    /\ posts = received
    /\ posts_state = None
    /\ comments = NoTables
    /\ app_page = 1

\* CURRENT_SCREEN (Screen::PostList), REFRESH, DOWNLOAD_POSTS and stop as
\* they are initialised; no key is pressed yet
Statics ==
    /\ CURRENT_SCREEN = "PostList"
    /\ REFRESH = FALSE
    /\ DOWNLOAD_POSTS = FALSE
    /\ stop = FALSE
    /\ q_pressed = FALSE

(***************************************************************************)
(* CommentResponseTable, and the comments part of the post screen.         *)
(* tabs is the indentation drawn for each comment, None before the first   *)
(* draw.  loaded is the vector the table was created from and sorts the    *)
(* number of times its items were sorted since the table was created, by   *)
(* sort_comments or by the sort of the draw; the draw, which has no end,   *)
(* counts up to MaxSorts.  The program draws the table it loaded and never *)
(* calls sort_comments, its test sorts with sort_comments and never draws: *)
(* one specification for each.                                             *)
(***************************************************************************)
\* CommentResponseTable::new over a received vector of records
Init ==
    /\ items \in SeqsUpTo(Pool, MaxItems) \cup ScenarioOrders \cup {TestComments}
    /\ comment_id = 0
    /\ page = 1
    /\ level = 0
    /\ selected = None
    /\ tabs = None
    /\ loaded = items
    /\ sorts = 0
    /\ panicked = FALSE
    /\ returned = <<"new", None>>
    /\ num_comments = 0
    /\ requests = <<>>
    /\ responses = <<>>
    /\ pages = <<>>
    /\ pc = "draw"
    /\ App_new(<<>>)
    /\ Statics

\* CommentResponseTable::sort_comments
sort_comments ==
    /\ ~panicked
    /\ sorts < MaxSorts
    /\ items' = StableSort(items)
    /\ sorts' = sorts + 1
    /\ returned' = <<"sort_comments", None>>
    /\ UNCHANGED <<comment_id, page, level, selected, tabs, loaded, panicked, fetch_vars, app_vars>>

\* draw_post_screen, the comments of the selected post: the items are sorted
\* by root and path length, then each is drawn behind its indentation
draw_comments ==
    /\ items' = DrawSort(items)
    /\ sorts' = MinOf(sorts + 1, MaxSorts)
    /\ tabs' = Some([i \in 1..Len(items) |-> Depth(items'[i].path)])
    /\ UNCHANGED <<comment_id, page, level, selected, loaded, call_vars, fetch_vars, app_vars>>

Next == sort_comments

Spec == Init /\ [][Next]_vars

DrawNext == draw_comments

DrawSpec == Init /\ [][DrawNext]_vars

(***************************************************************************)
(* Navigation of a CommentResponseTable.  selected is state.selected(), an *)
(* Option of a 0-based index.  A call that panics sets panicked and the    *)
(* program is over; returned is the value of the last current() call.      *)
(***************************************************************************)
\* Iterator::find(|c| c.comment.id() == id): the first position whose record
\* has the id, 0 when there is none
Find(its, id) ==
    IF \E i \in 1..Len(its) : its[i].id = id
    THEN CHOOSE i \in 1..Len(its) : its[i].id = id /\ \A j \in 1..(i - 1) : its[j].id # id
    ELSE 0

\* path.split('.').nth(n).unwrap_or("0")
NthSegment(path, n) == UnwrapOr(Nth(Split(path), n), <<"0">>)

\* CommentResponseTable::parent_id, of the items, comment_id and level given
parent_id_same_level(its, id, lvl) ==
    IF Find(its, id) = 0 THEN 0
    ELSE UnwrapOr(ParseU64(NthSegment(its[Find(its, id)].path, lvl)), 0)

parent_id_unwrap(its, id, lvl) ==
    IF Find(its, id) = 0 THEN 0
    ELSE LET seg == Nth(Split(its[Find(its, id)].path), lvl + 1)
         IN  IF seg = None \/ ParseU64(seg[1]) = None THEN id ELSE ParseU64(seg[1])[1]

parent_id_first(its, id, lvl) ==
    IF Len(its) = 0 THEN 0
    ELSE UnwrapOr(ParseU64(NthSegment(its[1].path, lvl + 1)), 0)

parent_id(its, id, lvl) ==
    IF Find(its, id) = 0 THEN 0
    ELSE UnwrapOr(ParseU64(NthSegment(its[Find(its, id)].path, lvl + 1)), 0)

\* CommentResponseTable::new
new(its) ==
    /\ items' = its
    /\ comment_id' = 0
    /\ page' = 1
    /\ level' = 0
    /\ selected' = None

\* the tables that are navigated
NavTables == SeqsUpTo(NavRecords, MaxItems)

\* the vectors a later fetch of the comments hands to a new table
FetchedTables ==
    { <<>>,
      << Rec(5, FormatPath(<<0, 5>>), 2, Pub1, 0) >>,
      << Rec(6, FormatPath(<<0, 5, 6>>), 1, Pub1, 0), Rec(0, <<"0", ".", "x", ".", "6">>, 0, Pub1, 0) >> }

NavInit ==
    /\ items \in NavTables
    /\ comment_id = 0
    /\ page = 1
    /\ level = 0
    /\ selected = None
    /\ tabs = None
    /\ loaded = items
    /\ sorts = 0
    /\ panicked = FALSE
    /\ returned = <<"new", None>>
    /\ num_comments = 0
    /\ requests = <<>>
    /\ responses = <<>>
    /\ pages = <<>>
    /\ pc = "draw"
    /\ App_new(<<>>)
    /\ Statics

\* main, app.comments.remove / insert: the table of the post is replaced by a
\* new one over the records fetched
load_keep_level ==
    /\ ~panicked
    /\ \E its \in FetchedTables :
        /\ items' = its
        /\ comment_id' = 0
        /\ page' = 1
        /\ selected' = None
        /\ loaded' = its
    /\ tabs' = None
    /\ sorts' = 0
    /\ returned' = <<"insert", None>>
    /\ UNCHANGED <<level, panicked, fetch_vars, app_vars>>

load ==
    /\ ~panicked
    /\ \E its \in FetchedTables : new(its) /\ loaded' = its
    /\ tabs' = None
    /\ sorts' = 0
    /\ returned' = <<"insert", None>>
    /\ UNCHANGED <<panicked, fetch_vars, app_vars>>

\* CommentResponseTable::next_level; the level is a usize, bounded here
next_level ==
    /\ ~panicked
    /\ level < MaxLevel
    /\ level' = level + 1
    /\ returned' = <<"next_level", Some(level')>>
    /\ UNCHANGED <<items, comment_id, page, selected, tabs, loaded, sorts, panicked, fetch_vars, app_vars>>

\* CommentResponseTable::previous_level
previous_level ==
    /\ ~panicked
    /\ level' = SaturatingSub(level, 1)
    /\ returned' = <<"previous_level", Some(level')>>
    /\ UNCHANGED <<items, comment_id, page, selected, tabs, loaded, sorts, panicked, fetch_vars, app_vars>>

\* CommentResponseTable::current
current ==
    /\ ~panicked
    /\ returned' = <<"current", IF selected = None THEN None ELSE Nth(items, selected[1])>>
    /\ UNCHANGED <<items, comment_id, page, level, selected, tabs, loaded, sorts, panicked, fetch_vars, app_vars>>

\* CommentResponseTable::go_to_parent
go_to_parent_keep_level ==
    /\ ~panicked
    /\ level' = level
    /\ comment_id' = parent_id(items, comment_id, level')
    /\ returned' = <<"go_to_parent", None>>
    /\ UNCHANGED <<items, page, selected, tabs, loaded, sorts, panicked, fetch_vars, app_vars>>

go_to_parent ==
    /\ ~panicked
    /\ level' = SaturatingSub(level, 1)
    /\ comment_id' = parent_id(items, comment_id, level')
    /\ returned' = <<"go_to_parent", None>>
    /\ UNCHANGED <<items, page, selected, tabs, loaded, sorts, panicked, fetch_vars, app_vars>>

\* CommentResponseTable::deselect
deselect ==
    /\ ~panicked
    /\ selected' = None
    /\ returned' = <<"deselect", None>>
    /\ UNCHANGED <<items, comment_id, page, level, tabs, loaded, sorts, panicked, fetch_vars, app_vars>>

\* CommentResponseTable::next; (i + 1) % len panics when len is 0
next_no_wrap ==
    /\ ~panicked
    /\ IF selected # None /\ Len(items) = 0
       THEN panicked' = TRUE /\ UNCHANGED selected
       ELSE /\ selected' = Some(IF selected = None THEN 0
                                ELSE MinOf(selected[1] + 1, Len(items) - 1))
            /\ UNCHANGED panicked
    /\ returned' = <<"next", None>>
    /\ UNCHANGED <<items, comment_id, page, level, tabs, loaded, sorts, fetch_vars, app_vars>>

next ==
    /\ ~panicked
    /\ IF selected # None /\ Len(items) = 0
       THEN panicked' = TRUE /\ UNCHANGED selected
       ELSE /\ selected' = Some(IF selected = None THEN 0
                                ELSE (selected[1] + 1) % Len(items))
            /\ UNCHANGED panicked
    /\ returned' = <<"next", None>>
    /\ UNCHANGED <<items, comment_id, page, level, tabs, loaded, sorts, fetch_vars, app_vars>>

\* CommentResponseTable::previous
previous_deselects ==
    /\ ~panicked
    /\ selected' = IF selected = None THEN Some(SaturatingSub(Len(items), 1))
                   ELSE IF selected[1] = 0 THEN None
                   ELSE Some(SaturatingSub(selected[1], 1))
    /\ returned' = <<"previous", None>>
    /\ UNCHANGED <<items, comment_id, page, level, tabs, loaded, sorts, panicked, fetch_vars, app_vars>>

previous ==
    /\ ~panicked
    /\ selected' = Some(IF selected = None THEN SaturatingSub(Len(items), 1)
                        ELSE IF selected[1] = 0 THEN SaturatingSub(Len(items), 1)
                        ELSE SaturatingSub(selected[1], 1))
    /\ returned' = <<"previous", None>>
    /\ UNCHANGED <<items, comment_id, page, level, tabs, loaded, sorts, panicked, fetch_vars, app_vars>>

NavNext ==
    \/ load
    \/ next
    \/ previous
    \/ deselect
    \/ next_level
    \/ previous_level
    \/ go_to_parent
    \/ current
    \/ sort_comments

NavSpec == NavInit /\ [][NavNext]_vars

\* the operations that move the cursor and the parent: entering a child
\* level, going back to the parent, and the selection
ParentNext ==
    \/ next
    \/ previous
    \/ deselect
    \/ next_level
    \/ go_to_parent

ParentSpec == NavInit /\ [][ParentNext]_vars

\* the cursor alone: the calls that move or read the selection
CursorNext ==
    \/ next
    \/ previous
    \/ deselect
    \/ current

CursorSpec == NavInit /\ [][CursorNext]_vars

(***************************************************************************)
(* main, Screen::Post: the comments of the selected post are fetched page  *)
(* by page when app.comments has no table for it.  pc is the place in the  *)
(* loop: "loop" at its top, "pages" in the requests,                       *)
(* "insert" before the table is inserted, "draw" at draw_post_screen, and  *)
(* "error" after a failed request has ended main.                          *)
(***************************************************************************)
PageSize == 50

\* post.counts.comments() of the selected post
NumComments ==
    { p * PageSize + r : p \in 0..MaxFullPages, r \in {0, 1, 25, 49} }

\* PostResponseTable::current
posts_current ==
    IF posts_state = None THEN None ELSE Nth(posts, posts_state[1])

\* post.post.id() of the selected post
post_id == posts_current[1].id

\* whether app.comments holds a table for the selected post
cached == posts_current # None /\ comments[post_id] # None

\* a table with what is recorded about it: the fields of
\* CommentResponseTable, then tabs, loaded and sorts as described above
table ==
    [items |-> items, comment_id |-> comment_id, page |-> page, level |-> level,
     selected |-> selected, tabs |-> tabs, loaded |-> loaded, sorts |-> sorts]

\* the Post screen is entered with a post selected and no table for it
FetchInit ==
    /\ items = <<>>
    /\ comment_id = 0
    /\ page = 1
    /\ level = 0
    /\ selected = None
    /\ tabs = None
    /\ loaded = <<>>
    /\ sorts = 0
    /\ panicked = FALSE
    /\ returned = <<"new", None>>
    /\ num_comments = 0
    /\ requests = <<>>
    /\ responses = <<>>
    /\ pages = <<>>
    /\ pc = "loop"
    /\ \E c \in NumComments : posts = << [id |-> 1, comments |-> c] >>
    /\ posts_state = Some(0)
    /\ comments = NoTables
    /\ app_page = 1
    /\ CURRENT_SCREEN = "Post"
    /\ REFRESH = FALSE
    /\ DOWNLOAD_POSTS = FALSE
    /\ stop = FALSE
    /\ q_pressed = FALSE

\* Screen::Post with a post selected and no table for it, or the refresh flag
\* set: the post's comment count is read and the empty CommentResponses created
begin_fetch_uncached ==
    /\ pc = "loop"
    /\ ~stop
    /\ CURRENT_SCREEN = "Post"
    /\ posts_current # None
    /\ comments[post_id] = None
    /\ num_comments' = posts_current[1].comments
    /\ requests' = <<>>
    /\ responses' = <<>>
    /\ pages' = <<>>
    /\ pc' = "pages"
    /\ UNCHANGED <<items, comment_id, page, level, selected, tabs, loaded, sorts, call_vars, app_vars>>

begin_fetch ==
    /\ pc = "loop"
    /\ ~stop
    /\ CURRENT_SCREEN = "Post"
    /\ posts_current # None
    /\ comments[post_id] = None \/ REFRESH
    /\ num_comments' = posts_current[1].comments
    /\ requests' = <<>>
    /\ responses' = <<>>
    /\ pages' = <<>>
    /\ pc' = "pages"
    /\ UNCHANGED <<items, comment_id, page, level, selected, tabs, loaded, sorts, call_vars, app_vars>>

\* one pass of `for page in 0..(num_comments / 50)`: page + 1 is requested; the
\* records received are appended, or the error ends main
request_page_front ==
    /\ pc = "pages"
    /\ Len(requests) < num_comments \div PageSize
    /\ requests' = Append(requests, Len(requests) + 1)
    /\ \/ \E received \in FetchedTables :
              /\ responses' = received \o responses
              /\ pages' = Append(pages, received)
              /\ pc' = "pages"
       \/ /\ pc' = "error"
          /\ UNCHANGED <<responses, pages>>
    /\ UNCHANGED <<items, comment_id, page, level, selected, tabs, loaded, sorts, call_vars,
                   num_comments, app_vars>>

request_page ==
    /\ pc = "pages"
    /\ Len(requests) < num_comments \div PageSize
    /\ requests' = Append(requests, Len(requests) + 1)
    /\ \/ \E received \in FetchedTables :
              /\ responses' = responses \o received
              /\ pages' = Append(pages, received)
              /\ pc' = "pages"
       \/ /\ pc' = "error"
          /\ UNCHANGED <<responses, pages>>
    /\ UNCHANGED <<items, comment_id, page, level, selected, tabs, loaded, sorts, call_vars,
                   num_comments, app_vars>>

\* `if num_comments % 50 > 0`: the page after the full ones is requested
request_last_page_removes ==
    /\ pc = "pages"
    /\ Len(requests) = num_comments \div PageSize
    /\ num_comments % PageSize > 0
    /\ requests' = Append(requests, (num_comments \div PageSize) + 1)
    /\ \/ \E received \in FetchedTables :
              /\ responses' = responses \o received
              /\ pages' = Append(pages, received)
              /\ pc' = "insert"
              /\ UNCHANGED comments
       \/ /\ pc' = "error"
          /\ comments' = [comments EXCEPT ![post_id] = None]
          /\ UNCHANGED <<responses, pages>>
    /\ UNCHANGED <<items, comment_id, page, level, selected, tabs, loaded, sorts, call_vars,
                   num_comments, CURRENT_SCREEN, stop, posts, posts_state, REFRESH,
                   DOWNLOAD_POSTS, app_page, q_pressed>>

request_last_page_same ==
    /\ pc = "pages"
    /\ Len(requests) = num_comments \div PageSize
    /\ num_comments % PageSize > 0
    /\ requests' = Append(requests, num_comments \div PageSize)
    /\ \/ \E received \in FetchedTables :
              /\ responses' = responses \o received
              /\ pages' = Append(pages, received)
              /\ pc' = "insert"
       \/ /\ pc' = "error"
          /\ UNCHANGED <<responses, pages>>
    /\ UNCHANGED <<items, comment_id, page, level, selected, tabs, loaded, sorts, call_vars,
                   num_comments, app_vars>>

request_last_page ==
    /\ pc = "pages"
    /\ Len(requests) = num_comments \div PageSize
    /\ num_comments % PageSize > 0
    /\ requests' = Append(requests, (num_comments \div PageSize) + 1)
    /\ \/ \E received \in FetchedTables :
              /\ responses' = responses \o received
              /\ pages' = Append(pages, received)
              /\ pc' = "insert"
       \/ /\ pc' = "error"
          /\ UNCHANGED <<responses, pages>>
    /\ UNCHANGED <<items, comment_id, page, level, selected, tabs, loaded, sorts, call_vars,
                   num_comments, app_vars>>

\* app.comments.remove / insert, set_refresh(false): the table of the post is
\* a new one over the records received, and the refresh flag is cleared
insert ==
    /\ \/ pc = "insert"
       \/ /\ pc = "pages"
          /\ Len(requests) = num_comments \div PageSize
          /\ num_comments % PageSize = 0
    /\ new(responses)
    /\ loaded' = responses
    /\ tabs' = None
    /\ sorts' = 0
    /\ returned' = <<"insert", None>>
    /\ comments' = [comments EXCEPT ![post_id] = Some(table')]
    /\ REFRESH' = FALSE
    /\ pc' = "draw"
    /\ UNCHANGED <<panicked, num_comments, requests, responses, pages,
                   CURRENT_SCREEN, stop, posts, posts_state, DOWNLOAD_POSTS, app_page,
                   q_pressed>>

FetchNext ==
    \/ begin_fetch
    \/ request_page
    \/ request_last_page
    \/ insert

FetchSpec == FetchInit /\ [][FetchNext]_vars


(***************************************************************************)
(* main: the loop over the screens.  One pass is one action, but for the   *)
(* fetch of the comments, which is the actions above: a pass on the Post   *)
(* screen is begin_fetch, the requests, insert and draw_post_screen when   *)
(* the comments are fetched, and draw_post_screen alone when they are      *)
(* cached.  pc is "loop" between two passes, "done" after the break,       *)
(* "error" after a failed download has ended main and "panic" after a      *)
(* panic.  The items, comment_id, page, level, selected, tabs, loaded and  *)
(* sorts are those of the table the loop inserted or drew last.            *)
(***************************************************************************)
\* the answers dl_posts gives for a page of the post list
DownloadedPosts ==
    { <<>>,
      << [id |-> 1, comments |-> 51] >>,
      << [id |-> 1, comments |-> 51], [id |-> 2, comments |-> 0] >> }

\* the vectors of a sequence of pages one after the other
Concat(ps) ==
    LET RECURSIVE cat(_)
        cat(k) == IF k = 0 THEN <<>> ELSE cat(k - 1) \o ps[k]
    IN  cat(Len(ps))

\* the vectors a table of the cache can hold: some pages one after the other,
\* as fetched or as the draw sorted them
CachedItems ==
    LET fetched == { Concat(ps) : ps \in SeqsUpTo(FetchedTables, MaxFullPages + 1) }
    IN  fetched \cup { DrawSort(its) : its \in fetched }

\* the sort of draw_post_screen and the indentation it draws, computed once
\* for each of these vectors
DrawnOf == [its \in CachedItems |-> DrawSort(its)]

ShownOf == [its \in CachedItems |-> [i \in 1..Len(its) |-> Depth(its[i].path)]]

\* what the post screen and the post list make of a key event; "none" is
\* the poll that times out, "other" any key without an arm
PostKeys ==
    {"Esc", "Enter", "Up", "Down", "Left", "Right", "n", "p", "i", "Ctrl-c", "q", "other", "none"}

ListKeys ==
    {"Esc", "Down", "Up", "Enter", "Ctrl-c", "n", "Right", "p", "Left", "q", "other", "none"}

\* main before the loop: the first page of posts is downloaded and the App
\* created; no comment table exists yet
MainInit ==
    /\ items = <<>>
    /\ comment_id = 0
    /\ page = 1
    /\ level = 0
    /\ selected = None
    /\ tabs = None
    /\ loaded = <<>>
    /\ sorts = 0
    /\ panicked = FALSE
    /\ returned = <<"new", None>>
    /\ num_comments = 0
    /\ requests = <<>>
    /\ responses = <<>>
    /\ pages = <<>>
    /\ pc = "loop"
    /\ \E received \in DownloadedPosts : App_new(received)
    /\ Statics

\* PostResponseTable::next, the selection it makes: (i + 1) % len, or 0
posts_next(st, its) ==
    Some(IF st = None THEN 0 ELSE (st[1] + 1) % Len(its))

\* PostResponseTable::previous, the selection it makes
posts_previous(st, its) ==
    LET last == SaturatingSub(Len(its), 1)
    IN  Some(IF st = None THEN last
             ELSE IF st[1] = 0 THEN last ELSE SaturatingSub(st[1], 1))

\* draw_post_screen on the key given: the comments of the selected post are
\* sorted and drawn, then the key event is handled, the waiting 'q' if there
\* is one.  It is called after the insert, or at once when the table is
\* cached and no refresh is asked for
post_screen(key) ==
    /\ \/ pc = "draw"
       \/ /\ pc = "loop"
          /\ ~stop
          /\ CURRENT_SCREEN = "Post"
          /\ cached
          /\ ~REFRESH
    /\ q_pressed => key = "q"
    /\ q_pressed' = FALSE
    /\ LET c == comments[post_id][1]
           drawn == DrawnOf[c.items]
           shown == Some(ShownOf[drawn])
           sorted == MinOf(c.sorts + 1, MaxSorts)
       IN  /\ items' = drawn
           /\ sorts' = sorted
           /\ tabs' = shown
           /\ comment_id' = c.comment_id
           /\ page' = c.page
           /\ level' = c.level
           /\ selected' = c.selected
           /\ loaded' = c.loaded
           /\ comments' = [comments EXCEPT ![post_id] =
                               Some([c EXCEPT !.items = drawn, !.tabs = shown, !.sorts = sorted])]
    /\ CURRENT_SCREEN' =
           CASE key = "Esc" -> "PostList"
             [] key = "Enter" -> "CommentList"
             [] key = "i" -> "Image"
             [] OTHER -> CURRENT_SCREEN
    /\ posts_state' =
           CASE key = "n" -> posts_next(posts_state, posts)
             [] key = "p" -> posts_previous(posts_state, posts)
             [] OTHER -> posts_state
    /\ stop' = (stop \/ key \in {"q", "Ctrl-c"})
    /\ num_comments' = 0
    /\ requests' = <<>>
    /\ responses' = <<>>
    /\ pages' = <<>>
    /\ pc' = "loop"
    /\ UNCHANGED <<call_vars, posts, REFRESH, DOWNLOAD_POSTS, app_page>>

draw_post_screen == \E key \in PostKeys : post_screen(key)

\* Screen::Post with no post selected: back to the post list
no_post_image ==
    /\ pc = "loop"
    /\ ~stop
    /\ CURRENT_SCREEN = "Post"
    /\ posts_current = None
    /\ CURRENT_SCREEN' = "Image"
    /\ UNCHANGED <<items, comment_id, page, level, selected, tabs, loaded, sorts, call_vars,
                   fetch_vars, stop, posts, posts_state, comments, REFRESH, DOWNLOAD_POSTS,
                   app_page, q_pressed>>

no_post ==
    /\ pc = "loop"
    /\ ~stop
    /\ CURRENT_SCREEN = "Post"
    /\ posts_current = None
    /\ CURRENT_SCREEN' = "PostList"
    /\ UNCHANGED <<items, comment_id, page, level, selected, tabs, loaded, sorts, call_vars,
                   fetch_vars, stop, posts, posts_state, comments, REFRESH, DOWNLOAD_POSTS,
                   app_page, q_pressed>>

\* Screen::PostList on the key given: when the download flag is set the page
\* app.page of the posts is downloaded into a new posts table (received), or
\* the failed download ends main; then draw_posts_screen draws the list and
\* handles the key event.  next() on an empty list with a selection divides
\* by zero
posts_screen(received, key) ==
    /\ pc = "loop"
    /\ ~stop
    /\ CURRENT_SCREEN = "PostList"
    /\ received \in (IF DOWNLOAD_POSTS THEN DownloadedPosts ELSE {posts})
    /\ key \in {"n", "Right"} => app_page < MaxPage
    /\ q_pressed => key = "q"
    /\ q_pressed' = FALSE
    /\ posts' = received
    /\ LET st == IF DOWNLOAD_POSTS THEN None ELSE posts_state
       IN  IF key = "Down" /\ st # None /\ Len(received) = 0
           THEN /\ panicked' = TRUE
                /\ pc' = "panic"
                /\ posts_state' = st
           ELSE /\ panicked' = panicked
                /\ pc' = "loop"
                /\ posts_state' =
                       CASE key = "Esc" -> None
                         [] key = "Down" -> posts_next(st, received)
                         [] key = "Up" -> posts_previous(st, received)
                         [] OTHER -> st
    /\ CURRENT_SCREEN' = IF key = "Enter" THEN "Post" ELSE CURRENT_SCREEN
    /\ stop' = (key \in {"q", "Ctrl-c"})
    /\ app_page' =
           CASE key \in {"n", "Right"} -> app_page + 1
             [] key \in {"p", "Left"} -> IF app_page > 1 THEN SaturatingSub(app_page, 1) ELSE app_page
             [] OTHER -> app_page
    /\ DOWNLOAD_POSTS' = (key \in {"n", "Right", "p", "Left"})
    /\ UNCHANGED <<items, comment_id, page, level, selected, tabs, loaded, sorts, returned,
                   num_comments, requests, responses, pages, comments, REFRESH>>

draw_posts_screen ==
    \/ \E received \in DownloadedPosts \cup {posts}, key \in ListKeys : posts_screen(received, key)
    \/ /\ pc = "loop"
       /\ ~stop
       /\ CURRENT_SCREEN = "PostList"
       /\ DOWNLOAD_POSTS
       /\ pc' = "error"
       /\ UNCHANGED <<items, comment_id, page, level, selected, tabs, loaded, sorts, call_vars,
                      num_comments, requests, responses, pages, app_vars>>

\* `_ => ()`: on every other screen a pass of the loop does nothing
other_screen ==
    /\ pc = "loop"
    /\ ~stop
    /\ CURRENT_SCREEN \in {"Image", "CommentList", "Comment"}
    /\ UNCHANGED vars

\* `if stop.load(..) { break; }`
break ==
    /\ pc = "loop"
    /\ stop
    /\ pc' = "done"
    /\ UNCHANGED <<items, comment_id, page, level, selected, tabs, loaded, sorts, call_vars,
                   num_comments, requests, responses, pages, app_vars>>

\* SIGTERM or SIGINT while main runs: signal_hook sets the stop flag
signal ==
    /\ pc \in {"loop", "pages", "insert", "draw"}
    /\ ~stop
    /\ stop' = TRUE
    /\ UNCHANGED <<items, comment_id, page, level, selected, tabs, loaded, sorts, call_vars,
                   fetch_vars, CURRENT_SCREEN, posts, posts_state, comments, REFRESH,
                   DOWNLOAD_POSTS, app_page, q_pressed>>

\* set_refresh(true), here between two passes of the loop.  The function is
\* public; main itself calls it with false only (in insert)
set_refresh ==
    /\ pc = "loop"
    /\ ~stop
    /\ ~REFRESH
    /\ REFRESH' = TRUE
    /\ UNCHANGED <<items, comment_id, page, level, selected, tabs, loaded, sorts, call_vars,
                   fetch_vars, CURRENT_SCREEN, stop, posts, posts_state, comments,
                   DOWNLOAD_POSTS, app_page, q_pressed>>

\* what main does by itself
Program ==
    \/ begin_fetch
    \/ request_page
    \/ request_last_page
    \/ insert
    \/ draw_post_screen
    \/ no_post
    \/ draw_posts_screen
    \/ other_screen
    \/ break

MainNext ==
    \/ begin_fetch
    \/ request_page
    \/ request_last_page
    \/ insert
    \/ draw_post_screen
    \/ no_post
    \/ draw_posts_screen
    \/ other_screen
    \/ break
    \/ signal
    \/ set_refresh

MainSpec == MainInit /\ [][MainNext]_vars

\* the user presses 'q' while main runs: the key event waits in the queue of
\* the terminal until a pass of the loop polls it
press_q ==
    /\ pc \in {"loop", "pages", "insert", "draw"}
    /\ ~stop
    /\ ~q_pressed
    /\ q_pressed' = TRUE
    /\ UNCHANGED <<items, comment_id, page, level, selected, tabs, loaded, sorts, call_vars,
                   fetch_vars, CURRENT_SCREEN, stop, posts, posts_state, comments, REFRESH,
                   DOWNLOAD_POSTS, app_page>>

LiveNext ==
    \/ begin_fetch
    \/ request_page
    \/ request_last_page
    \/ insert
    \/ draw_post_screen
    \/ no_post
    \/ draw_posts_screen
    \/ other_screen
    \/ break
    \/ signal
    \/ set_refresh
    \/ press_q

\* the loop keeps running: a pass that can be made is made
LiveSpec == MainInit /\ [][LiveNext]_vars /\ WF_vars(Program)

(***************************************************************************)
(* The page and level counters, called one after the other on an App and   *)
(* on a table as they are created.  The pages have no upper end in the     *)
(* code (saturating_add on the App, += 1 on the table); MaxPage ends them  *)
(* here.                                                                   *)
(***************************************************************************)
\* App::next_page
App_next_page ==
    /\ ~panicked
    /\ app_page < MaxPage
    /\ app_page' = app_page + 1
    /\ returned' = <<"App::next_page", Some(app_page')>>
    /\ UNCHANGED <<items, comment_id, page, level, selected, tabs, loaded, sorts, panicked,
                   fetch_vars, CURRENT_SCREEN, stop, posts, posts_state, comments, REFRESH,
                   DOWNLOAD_POSTS, q_pressed>>

\* App::previous_page
App_previous_page ==
    /\ ~panicked
    /\ app_page' = IF app_page > 1 THEN SaturatingSub(app_page, 1) ELSE app_page
    /\ returned' = <<"App::previous_page", Some(app_page')>>
    /\ UNCHANGED <<items, comment_id, page, level, selected, tabs, loaded, sorts, panicked,
                   fetch_vars, CURRENT_SCREEN, stop, posts, posts_state, comments, REFRESH,
                   DOWNLOAD_POSTS, q_pressed>>

\* CommentResponseTable::next_page
next_page ==
    /\ ~panicked
    /\ page < MaxPage
    /\ page' = page + 1
    /\ returned' = <<"next_page", None>>
    /\ UNCHANGED <<items, comment_id, level, selected, tabs, loaded, sorts, panicked, fetch_vars, app_vars>>

\* CommentResponseTable::previous_page
previous_page_unguarded ==
    /\ ~panicked
    /\ page' = page - 1
    /\ returned' = <<"previous_page", None>>
    /\ UNCHANGED <<items, comment_id, level, selected, tabs, loaded, sorts, panicked, fetch_vars, app_vars>>

previous_page ==
    /\ ~panicked
    /\ page' = IF page > 1 THEN page - 1 ELSE page
    /\ returned' = <<"previous_page", None>>
    /\ UNCHANGED <<items, comment_id, level, selected, tabs, loaded, sorts, panicked, fetch_vars, app_vars>>

CounterNext ==
    \/ App_next_page
    \/ App_previous_page
    \/ next_page
    \/ previous_page
    \/ next_level
    \/ previous_level
    \/ go_to_parent

CounterSpec == NavInit /\ [][CounterNext]_vars


(***************************************************************************)
(* Notions the properties are stated with.                                 *)
(***************************************************************************)
\* what the properties read of each record of the inputs, computed once: the
\* parsed path, the own position, the root, the depth, the segments that are
\* no numbers
Derived ==
    [r \in Records |->
        [ids |-> ParsedPath(r.path),
         pos |-> OwnPos(r),
         root |-> Root(r),
         depth |-> Depth(r.path),
         malformed |-> \E i \in 1..Len(Split(r.path)) : ParseU64(Split(r.path)[i]) = None]]

Ids(r) == Derived[r].ids

PosOf(r) == Derived[r].pos

RootOf(r) == Derived[r].root

DepthOf(r) == Derived[r].depth

\* the opposite ordering
Reverse(o) == CASE o = "Less" -> "Greater" [] o = "Greater" -> "Less" [] OTHER -> "Equal"

IsStrictPrefix(s, t) == Len(s) < Len(t) /\ SubSeq(t, 1, Len(s)) = s

\* A is an ancestor of B: the elements of A's path are a strict prefix of B's
IsAncestor(a, b) == IsStrictPrefix(Ids(a), Ids(b))

UniqueIds(s) == \A i, j \in 1..Len(s) : s[i].id = s[j].id => i = j

\* the last element of the path is the record's id
EndsInOwnId(r) == Ids(r)[Len(Ids(r))] = r.id

\* ... and the id occurs nowhere before the end of the path
OwnIdOnlyLast(r) == EndsInOwnId(r) /\ PosOf(r) = Len(Ids(r)) - 1

AncestorsFirst(s) ==
    \A i, j \in 1..Len(s) : IsAncestor(s[i], s[j]) => i < j

PathsOf(s) == [i \in 1..Len(s) |-> s[i].path]

\* the position of the record with path p in s (0 when absent)
IndexOfPath(s, p) ==
    IF \E i \in 1..Len(s) : s[i].path = p THEN CHOOSE i \in 1..Len(s) : s[i].path = p ELSE 0

\* the path elements after the sentinel and the root and before the last
AncestorChain(r) == SubSeq(Ids(r), 3, Len(Ids(r)) - 1)

SortKey(r) ==
    <<RootOf(r), AncestorChain(r), DepthOf(r), child_count(r), r.id, r.published>>

Antisymmetric(a, b) == cmp(a, b) = Reverse(cmp(b, a))

Transitive(a, b, c) ==
    /\ (cmp(a, b) = "Less" /\ cmp(b, c) = "Less") => cmp(a, c) = "Less"
    /\ (cmp(a, b) = "Equal" /\ cmp(b, c) = "Equal") => cmp(a, c) = "Equal"
    /\ (cmp(a, b) = "Equal" /\ cmp(b, c) = "Less") => cmp(a, c) = "Less"
    /\ (cmp(a, b) = "Less" /\ cmp(b, c) = "Equal") => cmp(a, c) = "Less"

\* a record of a well-formed forest: sentinel, root, ..., own id, all numbers
TreeRecord(r) ==
    /\ ~Derived[r].malformed
    /\ Len(Ids(r)) >= 2
    /\ Ids(r)[1] = 0
    /\ OwnIdOnlyLast(r)

\* the path elements strictly between the root and the record's own id
ChainToOwnId(r) == SubSeq(Ids(r), 3, PosOf(r))

\* the chains differ first at position k, which both have
FirstDifference(s, t, k) ==
    /\ k <= Len(s)
    /\ k <= Len(t)
    /\ s[k] # t[k]
    /\ \A m \in 1..(k - 1) : s[m] = t[m]

SamePlace(a, b) ==
    /\ RootOf(a) = RootOf(b)
    /\ AncestorChain(a) = AncestorChain(b)
    /\ DepthOf(a) = DepthOf(b)

TieBreak(a, b) ==
    Then(CmpInt(child_count(a), child_count(b)),
    Then(CmpInt(a.id, b.id),
         CmpStr(a.published, b.published)))

Count(s, r) == Cardinality({ i \in 1..Len(s) : s[i] = r })

IsPermutation(s, t) ==
    /\ Len(s) = Len(t)
    /\ \A i \in 1..Len(s) : Count(s, s[i]) = Count(t, s[i])

\* the path is empty or has a segment that is no number, or the id is not
\* the last element of the path
Inconsistent(r) == Derived[r].malformed \/ ~EndsInOwnId(r)

\* the parent named by the path is not in the collection
ParentMissing(s, r) ==
    /\ Len(Ids(r)) >= 3
    /\ \A i \in 1..Len(s) : s[i].id # Ids(r)[Len(Ids(r)) - 1]

NumSegments(path) == 1 + Cardinality({ i \in 1..Len(path) : path[i] = "." })

Malformed(r) == Derived[r].malformed

JustDrawn == tabs # None

DepthDrawn(i) == tabs[1][i]

DepthExamples ==
    \A i \in 1..Len(items) :
        /\ DepthDrawn(i) = (IF NumSegments(items[i].path) >= 2
                            THEN NumSegments(items[i].path) - 2 ELSE 0)
        /\ items[i].path = <<"0", ".", "5", ".", "9", ".", "1", "4">> => DepthDrawn(i) = 2
        /\ items[i].path = <<"0", ".", "5">> => DepthDrawn(i) = 0
        /\ items[i].path = <<>> => DepthDrawn(i) = 0

\* records that compare Equal are identical
EqualOnlyIdentical(s) ==
    \A i, j \in 1..Len(s) : cmp(s[i], s[j]) = "Equal" => s[i] = s[j]

C2_AsClaimed ==
    (sorts >= 1 /\ Len(loaded) <= MaxPermLen) => \A p \in PermsOf(loaded) : StableSort(p) = items

\* C2 as amended: ... of a collection in which no two different records
\* compare Equal (every collection with unique ids is one).
C2_Determinism ==
    /\ (sorts >= 1 /\ Len(loaded) <= MaxPermLen /\ EqualOnlyIdentical(loaded))
          => \A p \in PermsOf(loaded) : StableSort(p) = items
    /\ UniqueIds(loaded) => EqualOnlyIdentical(loaded)

\* C2: three records with unique ids, received out of order, are sorted
C2_Witness ==
    /\ sorts >= 1
    /\ Len(loaded) >= 3
    /\ UniqueIds(loaded)
    /\ items # loaded

(***************************************************************************)
(* C3  The comparison is a proper total order over records: cmp(a, b) is   *)
(* the reverse of cmp(b, a), Less is transitive, and cmp(a, b) is Equal    *)
(* only when a and b have the same sort key (root, ancestor chain, depth,  *)
(* child count, id, published).                                            *)
(***************************************************************************)
\* C3 as claimed: reverse, transitive, and Equal only on the same sort key
C3_AsClaimed ==
    \A i, j, k \in 1..Len(items) :
        LET a == items[i]
            b == items[j]
            c == items[k]
        IN  /\ Antisymmetric(a, b)
            /\ (cmp(a, b) = "Less" /\ cmp(b, c) = "Less") => cmp(a, c) = "Less"
            /\ cmp(a, b) = "Equal" => SortKey(a) = SortKey(b)

(***************************************************************************)
(* C4  Subtree contiguity: in the sorted collection no record that is not  *)
(* a descendant of A lies between A and a descendant of A.                 *)
(***************************************************************************)
\* C4 as claimed, on sorted collections of records of a well-formed forest
C4_AsClaimed ==
    (sorts >= 1 /\ UniqueIds(items) /\ \A i \in 1..Len(items) : TreeRecord(items[i]))
        => \A i, j, k \in 1..Len(items) :
              (i < j /\ j < k /\ IsAncestor(items[i], items[k]))
                  => IsAncestor(items[i], items[j])

(***************************************************************************)
(* C5  For two records with the same root the ancestor chains (the path    *)
(* elements strictly between the root and the own id) are compared first:  *)
(* the record with the smaller element at the first position where the     *)
(* chains differ sorts first.                                              *)
(***************************************************************************)
\* C5 as claimed: the first difference of the chains decides
C5_AsClaimed ==
    \A i, j \in 1..Len(items) :
        LET a == items[i]
            b == items[j]
        IN  (OwnIdOnlyLast(a) /\ OwnIdOnlyLast(b) /\ RootOf(a) # None /\ RootOf(a) = RootOf(b))
                => \A k \in 1..Len(ChainToOwnId(a)) :
                      (FirstDifference(ChainToOwnId(a), ChainToOwnId(b), k)
                          /\ ChainToOwnId(a)[k] < ChainToOwnId(b)[k])
                          => (cmp(a, b) = "Less" /\ (sorts >= 1 => i < j))

(***************************************************************************)
(* C6  Thread grouping: the root ancestor id is the primary sort key; in   *)
(* the sorted collection the roots never decrease, so the records of one   *)
(* root form one block and the blocks are in ascending root order.  The    *)
(* vector of test_sort_comments sorts into the paths the test expects.     *)
(***************************************************************************)
\* C6: a smaller root sorts first; sorted roots never decrease; the test passes
C6_ThreadGrouping ==
    /\ \A i, j \in 1..Len(items) :
          CmpOpt(RootOf(items[i]), RootOf(items[j])) = "Less" => cmp(items[i], items[j]) = "Less"
    /\ sorts >= 1 =>
          \A i, j \in 1..Len(items) :
              i < j => CmpOpt(RootOf(items[i]), RootOf(items[j])) # "Greater"
    /\ (sorts >= 1 /\ loaded = TestComments) => PathsOf(items) = TestExpPaths

\* C6: the vector of the test, with its five roots, is sorted
C6_Witness ==
    /\ sorts >= 1
    /\ loaded = TestComments
    /\ items # loaded
    /\ \E i, j \in 1..Len(items) : RootOf(items[i]) # RootOf(items[j])

C8_Idempotence ==
    [][(sorts >= 1 /\ sorts' = sorts + 1) => items' = items]_vars

\* C8: a collection received out of order has been sorted twice
C8_Witness ==
    /\ sorts = 2
    /\ items # loaded
    /\ Len(items) >= 3

(***************************************************************************)
(* C9  Sorting never fails on inconsistent input: the comparison and the   *)
(* equality are defined for every two records, the comparison is a         *)
(* consistent order (so that the sort cannot fail on it), and              *)
(* sort_comments returns a permutation of its input.                       *)
(***************************************************************************)
\* C9: comparison and equality are defined and consistent; the sort permutes
C9_SortNeverFails ==
    /\ \A i, j \in 1..Len(items) :
          /\ cmp(items[i], items[j]) \in Ordering
          /\ EqualityOf[items[i]][items[j]] \in BOOLEAN
          /\ Antisymmetric(items[i], items[j])
          /\ \A k \in 1..Len(items) : Transitive(items[i], items[j], items[k])
    /\ sorts >= 1 => IsPermutation(items, loaded)

\* C9: an empty path, a non-numeric segment, a foreign id and a missing parent
C9_Witness ==
    /\ sorts >= 1
    /\ items # loaded
    /\ \E i \in 1..Len(items) : items[i].path = <<>>
    /\ \E i \in 1..Len(items) : Malformed(items[i]) /\ items[i].path # <<>>
    /\ \E i \in 1..Len(items) : ~EndsInOwnId(items[i]) /\ items[i].path # <<>>
    /\ \E i \in 1..Len(items) : ParentMissing(items, items[i])

(***************************************************************************)
(* C10  Depth: the number of dot-separated segments of the path minus 2,   *)
(* floored at 0; 2 for 0.5.9.14, 0 for 0.5, 0 for the empty path and 0 for *)
(* a malformed path.                                                       *)
(***************************************************************************)
\* C10 as claimed: the depth drawn for every malformed path is 0
C10_AsClaimed ==
    JustDrawn =>
        /\ DepthExamples
        /\ \A i \in 1..Len(items) : Malformed(items[i]) => DepthDrawn(i) = 0

\* C10 as amended: ... and 0 for a malformed path of at most two segments; a
\* malformed path of n >= 3 segments has depth n - 2.
C10_Depth ==
    JustDrawn =>
        /\ DepthExamples
        /\ \A i \in 1..Len(items) :
              Malformed(items[i]) =>
                  DepthDrawn(i) = (IF NumSegments(items[i].path) <= 2 THEN 0
                                   ELSE NumSegments(items[i].path) - 2)

\* C10: 0.5.9.14, the empty path and a malformed path of three segments drawn
C10_Witness ==
    /\ JustDrawn
    /\ \E i \in 1..Len(items) : items[i].path = <<"0", ".", "5", ".", "9", ".", "1", "4">>
    /\ \E i \in 1..Len(items) : items[i].path = <<>>
    /\ \E i \in 1..Len(items) : Malformed(items[i]) /\ DepthDrawn(i) > 0

(***************************************************************************)
(* Notions the navigation properties are stated with.                      *)
(***************************************************************************)
\* the operation called last
LastCall == returned[1]

\* a segment that is not an unsigned decimal number
NonNumeric(seg) == seg = <<>> \/ \E k \in 1..Len(seg) : ~IsDigit(seg[k])

\* the element at (0-based) index n of a sequence of ids, 0 when it has none
ElementOr0(ids, n) == IF n < Len(ids) THEN ids[n + 1] ELSE 0

\* the ancestor of a record at a level: the element of its parsed path at
\* index level + 1, or 0
AncestorAt(r, lvl) == ElementOr0(Ids(r), lvl + 1)

HasId(s, id) == \E i \in 1..Len(s) : s[i].id = id

\* the first item with the id
ItemWithId(s, id) ==
    s[CHOOSE i \in 1..Len(s) : s[i].id = id /\ \A j \in 1..(i - 1) : s[j].id # id]

\* the cursor holds the index of a record
HasSelectedRecord == selected # None /\ selected[1] < Len(items)

NoZeroId(s) == \A i \in 1..Len(s) : s[i].id # 0

(***************************************************************************)
(* C11  Path parsing degrades to 0: every non-numeric segment of a path is *)
(* read as the id 0, and the ancestor lookup of parent_id at a level gives *)
(* the path element at index level + 1, or 0 when the path has none.       *)
(***************************************************************************)
\* C11: in every table, each non-numeric segment parses to 0 and parent_id of
\* each item's id at each level is the element at index level + 1 of the
\* first item with that id, 0 when the path is too short
C11_PathParsingDegrades ==
    /\ \A i \in 1..Len(items) :
           \A k \in 1..Len(Split(items[i].path)) :
               NonNumeric(Split(items[i].path)[k]) => Ids(items[i])[k] = 0
    /\ \A i \in 1..Len(items) :
           \A lvl \in 0..MaxLevel :
               parent_id(items, items[i].id, lvl)
                   = AncestorAt(ItemWithId(items, items[i].id), lvl)

\* C11: go_to_parent has looked up, at level 0, the item of id 0 whose path
\* element at index 1 is the non-numeric segment x, and found 0
C11_Witness ==
    /\ LastCall = "go_to_parent"
    /\ level = 0
    /\ comment_id = 0
    /\ Len(items) >= 1
    /\ items[1].id = 0
    /\ NonNumeric(Split(items[1].path)[2])

C13_AsClaimed ==
    [][(Len(items) = 0 /\ (next \/ previous)) =>
          /\ selected' = selected
          /\ panicked' = panicked
          /\ UNCHANGED <<items, comment_id, page, level>>]_vars

(***************************************************************************)
(* C14  Every navigation operation is total: from every state reachable    *)
(* from a new table by next, previous, deselect, next_level,               *)
(* previous_level, go_to_parent and current, each of them completes.       *)
(***************************************************************************)
\* C14: as claimed, no call fails
C14_AsClaimed == panicked = FALSE

(***************************************************************************)
(* C15  Deselection only through deselect(): once the cursor holds an      *)
(* index, no next, previous, next_level, previous_level, go_to_parent or   *)
(* sort_comments on the same table makes it None.                          *)
(***************************************************************************)
\* C15: a step of one of these operations from a state with a cursor leads to
\* a state with a cursor
C15_DeselectOnly ==
    [][(selected # None /\ (\/ next
                            \/ previous
                            \/ next_level
                            \/ previous_level
                            \/ go_to_parent
                            \/ sort_comments)) => selected' # None]_vars

\* C15: the cursor still holds an index after the table was sorted and, last,
\* go_to_parent has found a parent
C15_Witness ==
    /\ selected # None
    /\ LastCall = "go_to_parent"
    /\ sorts >= 1
    /\ comment_id # 0

(***************************************************************************)
(* C16  Load is a full reset: the table built from a fetched collection    *)
(* holds that collection in the order given, with level 0, parent id 0 and *)
(* no selection, whatever the state of the table it replaces.              *)
(***************************************************************************)
\* C16: after a load step the items are the fetched vector and level, parent
\* id and cursor are those of a new table
C16_LoadResets ==
    [][load => /\ items' = loaded'
               /\ level' = 0
               /\ comment_id' = 0
               /\ selected' = None]_vars

\* C16: a table has just been loaded over a fetched vector of two records
C16_Witness ==
    /\ LastCall = "insert"
    /\ Len(items) = 2
    /\ items = loaded
    /\ level = 0
    /\ comment_id = 0
    /\ selected = None

PagesFor(c) ==
    CHOOSE p \in 0..c : p * PageSize >= c /\ \A q \in 0..(p - 1) : q * PageSize < c

\* C20: the pages requested are at every moment 1, 2, ... in this order, never
\* more than ceil(c / 50), and exactly ceil(c / 50) once the requests are over
\* and the table is built
C20_PageRequests ==
    /\ Len(requests) <= PagesFor(num_comments)
    /\ \A i \in 1..Len(requests) : requests[i] = i
    /\ pc \in {"insert", "draw"} =>
           /\ Len(requests) = PagesFor(num_comments)
           /\ num_comments = 125 => requests = <<1, 2, 3>>
           /\ num_comments = 0 => requests = <<>>
           /\ num_comments = 100 => requests = <<1, 2>>

\* C20: the table of a post of 125 comments is built after the pages 1, 2, 3
C20_Witness ==
    /\ pc = "draw"
    /\ cached
    /\ num_comments = 125
    /\ requests = <<1, 2, 3>>

(***************************************************************************)
(* C21  Page merge preserves page order: the records of the fetched pages  *)
(* are concatenated in increasing page number, each page in its own order, *)
(* whatever the length of a page and whatever the count the post reports.  *)
(***************************************************************************)
\* the sum of the lengths of the pages
SumLen(ps) ==
    LET RECURSIVE sum(_)
        sum(k) == IF k = 0 THEN 0 ELSE sum(k - 1) + Len(ps[k])
    IN  sum(Len(ps))

\* C21: page i of the answers is the answer to the request of page i; the
\* records merged so far are the answered pages in page order; the table
\* built holds exactly them, as many as the pages hold together
C21_PageMerge ==
    /\ Len(pages) <= Len(requests)
    /\ \A i \in 1..Len(pages) : requests[i] = i
    /\ pc \in {"pages", "insert", "draw"} => responses = Concat(pages)
    /\ pc = "draw" =>
           /\ items = Concat(pages)
           /\ Len(items) = SumLen(pages)
           /\ comments[post_id] # None
           /\ comments[post_id][1].items = Concat(pages)

\* C21: a table is built from two different short pages and a third, and
\* holds fewer records than the post reports
C21_Witness ==
    /\ pc = "draw"
    /\ Len(pages) = 3
    /\ pages[1] # <<>>
    /\ pages[2] # <<>>
    /\ pages[1] # pages[2]
    /\ Len(pages[1]) < PageSize
    /\ items = pages[1] \o pages[2] \o pages[3]
    /\ Len(items) # num_comments

(***************************************************************************)
(* C22  The order is applied once per load: the first display of a table   *)
(* sorts it and marks it sorted; later displays before the next load leave *)
(* the items as they are and do not sort again.                            *)
(***************************************************************************)
\* C22 as claimed: a display of a table that was displayed before neither
\* changes the items nor sorts them
C22_AsClaimed ==
    [][(draw_comments /\ JustDrawn) => (items' = items /\ sorts' = sorts)]_vars

(***************************************************************************)
(* C25  Quit is reachable from every screen: on the post list, on the post *)
(* screen, and on the CommentList and Image screens entered from the post  *)
(* screen, a 'q' key press is eventually handled and ends the main loop.   *)
(***************************************************************************)
\* main has returned: after the break, a failed download or a panic
Ended == pc \in {"done", "error", "panic"}

\* C25 as claimed: once 'q' is pressed, on whatever screen, main comes to
\* its end
C25_AsClaimed == q_pressed ~> Ended

(***************************************************************************)
(* C23  Refresh cycle: the comments of the selected post are fetched       *)
(* exactly when no table is cached for it or the refresh flag is set; a    *)
(* successful fetch leaves the flag false and a fresh table for that post  *)
(* in the cache, and the tables of the other posts as they were.           *)
(***************************************************************************)
\* the loop is at its top on the Post screen with a post selected
AtPost ==
    /\ pc = "loop"
    /\ ~stop
    /\ CURRENT_SCREEN = "Post"
    /\ posts_current # None

\* the tables cached for the posts other than the selected one stay
OthersKept == \A o \in PostIds \ {post_id} : comments'[o] = comments[o]

\* C23: on the Post screen with a post selected the pass fetches if and only
\* if the post has no table or the flag is set, and draws at once otherwise;
\* no fetch begins elsewhere; the step that ends a fetch clears the flag and
\* caches a fresh table over the records received, and no step of a fetch
\* touches another post's table
C23_RefreshCycle ==
    [][ /\ AtPost =>
            /\ (ENABLED begin_fetch) <=> (comments[post_id] = None \/ REFRESH)
            /\ (ENABLED draw_post_screen) <=> ~(comments[post_id] = None \/ REFRESH)
        /\ (pc = "loop" /\ pc' = "pages") =>
            /\ AtPost
            /\ comments[post_id] = None \/ REFRESH
            /\ comments' = comments
        /\ (pc = "pages" /\ pc' \in {"pages", "insert"}) => comments' = comments
        /\ (pc \in {"pages", "insert"} /\ pc' = "draw") =>
            /\ REFRESH' = FALSE
            /\ comments'[post_id] # None
            /\ comments'[post_id][1].items = responses
            /\ comments'[post_id][1].level = 0
            /\ comments'[post_id][1].comment_id = 0
            /\ comments'[post_id][1].selected = None
            /\ OthersKept
      ]_vars

\* C23: the refresh flag has made the loop fetch the comments of a post
\* whose table is cached, beside the cached table of another post
C23_Witness ==
    /\ pc = "insert"
    /\ REFRESH
    /\ comments[post_id] # None
    /\ \E o \in PostIds \ {post_id} : comments[o] # None
    /\ Len(pages) = 2


(***************************************************************************)
(* C27  A failed page fetch leaves the cache unchanged: the pages received *)
(* so far are dropped, the cached table, if any, and the refresh flag keep *)
(* their values, and the error ends the main loop.                         *)
(***************************************************************************)
\* C27: the step of a failed request changes neither the cache nor the flag
\* nor the table in hand, and nothing happens after it
C27_FailedFetch ==
    [][ /\ pc # "error"
        /\ (pc = "pages" /\ pc' = "error") =>
              /\ comments' = comments
              /\ REFRESH' = REFRESH
              /\ UNCHANGED <<items, comment_id, page, level, selected, tabs, loaded, sorts>>
      ]_vars

\* C27: the second request of a refetch has failed after the first page was
\* received, and the table cached before is still there
C27_Witness ==
    /\ pc = "error"
    /\ Len(requests) = 2
    /\ Len(pages) = 1
    /\ pages[1] # <<>>
    /\ REFRESH
    /\ comments[post_id] # None
    /\ comments[post_id][1].sorts >= 1


(***************************************************************************)
(* C28  The Post screen needs a selected post: with none selected the loop *)
(* fetches nothing, draws nothing and goes to the post list; the post      *)
(* screen is drawn only for a selected post whose table is cached.         *)
(***************************************************************************)
\* the loop is at its top on the Post screen with no post selected
NoPost ==
    /\ pc = "loop"
    /\ ~stop
    /\ CURRENT_SCREEN = "Post"
    /\ posts_current = None

\* C28: with no post selected neither a fetch nor a draw can happen, and the
\* pass of the loop (a step that is no signal and no call from outside)
\* changes the screen to PostList and nothing else; wherever the post screen
\* can be drawn a post is selected and has its table in the cache
C28_NoPost ==
    [][ /\ NoPost =>
            /\ ~ENABLED begin_fetch
            /\ ~ENABLED draw_post_screen
            /\ UNCHANGED <<stop, REFRESH, q_pressed>> =>
                  /\ CURRENT_SCREEN' = "PostList"
                  /\ UNCHANGED <<items, comment_id, page, level, selected, tabs, loaded,
                                 sorts, call_vars, fetch_vars, posts, posts_state, comments,
                                 DOWNLOAD_POSTS, app_page>>
        /\ (ENABLED draw_post_screen) => (posts_current # None /\ comments[post_id] # None)
      ]_vars

\* C28: Enter was pressed on the post list with no post selected
C28_Witness ==
    /\ NoPost
    /\ posts # <<>>
    /\ posts_state = None
    /\ ENABLED no_post

(***************************************************************************)
(* C24  Own position: the index of the record's id within its own path;    *)
(* path length minus 1 for a record whose last path element is its id; 0   *)
(* when the id does not occur in the path.                                 *)
(***************************************************************************)
\* the id occurs in the parsed path
OccursInPath(r) == \E k \in 1..Len(Ids(r)) : Ids(r)[k] = r.id

\* p is the (0-based) index of the first element of the path equal to the id
FirstIndexOfId(r, p) ==
    /\ p < Len(Ids(r))
    /\ Ids(r)[p + 1] = r.id
    /\ \A k \in 1..p : Ids(r)[k] # r.id

\* the id is the last element of the path and no element before it
IdOnlyAtEnd(r) ==
    /\ Ids(r)[Len(Ids(r))] = r.id
    /\ \A k \in 1..(Len(Ids(r)) - 1) : Ids(r)[k] # r.id

\* C24 as claimed: for every record the comparison has handled, the own
\* position is an index of the id when the id occurs, 0 when it does not, and
\* path length - 1 whenever the last element is the id
C24_AsClaimed ==
    \A i \in 1..Len(items) :
        LET r == items[i]
        IN  /\ OccursInPath(r) => Ids(r)[PosOf(r) + 1] = r.id
            /\ ~OccursInPath(r) => PosOf(r) = 0
            /\ EndsInOwnId(r) => PosOf(r) = Len(Ids(r)) - 1

\* C24, amended: the own position is the index of the first occurrence of
\* the id, 0 when there is none; it is path length - 1 for a record whose id
\* is the last element of its path and occurs nowhere before
C24_OwnPosition ==
    \A i \in 1..Len(items) :
        LET r == items[i]
        IN  /\ OccursInPath(r) => FirstIndexOfId(r, PosOf(r))
            /\ ~OccursInPath(r) => PosOf(r) = 0
            /\ IdOnlyAtEnd(r) => PosOf(r) = Len(Ids(r)) - 1

\* C24: a sort has compared a comment four levels deep whose id ends its
\* path, a record whose id is not in its path, and one whose id is also an
\* earlier element
C24_Witness ==
    /\ sorts >= 1
    /\ \E i \in 1..Len(items) :
           IdOnlyAtEnd(items[i]) /\ Len(Ids(items[i])) >= 4 /\ PosOf(items[i]) = Len(Ids(items[i])) - 1
    /\ \E i \in 1..Len(items) : ~OccursInPath(items[i]) /\ items[i].id # 0
    /\ \E i \in 1..Len(items) :
           EndsInOwnId(items[i]) /\ ~IdOnlyAtEnd(items[i]) /\ PosOf(items[i]) = 0

(***************************************************************************)
(* C26  Cursor range: after any sequence of next, previous and deselect on *)
(* a new table the cursor is none or an index below the number of items,   *)
(* so that current() returns a record whenever the cursor is not none.     *)
(***************************************************************************)
\* C26 as claimed: the cursor is none or the index of an item, and current()
\* called with a cursor has returned a record
C26_AsClaimed ==
    /\ selected = None \/ selected[1] < Len(items)
    /\ (LastCall = "current" /\ selected # None) => returned[2] # None

(***************************************************************************)
(* C29  Page and level floors: whatever next_page and previous_page calls  *)
(* are made the page of the App and of the table is at least 1, and        *)
(* whatever next_level, previous_level and go_to_parent calls the level is *)
(* at least 0; previous_page at page 1 and previous_level at level 0 leave *)
(* the counter where it is.                                                *)
(***************************************************************************)
\* C29: every call leaves the pages at 1 or more and the level at 0 or more,
\* and the calls that go down stay at the floor when they are made on it
C29_Floors ==
    [][ /\ page' >= 1
        /\ app_page' >= 1
        /\ level' >= 0
        /\ (LastCall' = "previous_page" /\ page = 1) => page' = 1
        /\ (LastCall' = "App::previous_page" /\ app_page = 1) =>
               (app_page' = 1 /\ returned'[2] = Some(1))
        /\ (LastCall' = "previous_level" /\ level = 0) =>
               (level' = 0 /\ returned'[2] = Some(0))
        /\ (LastCall' = "go_to_parent" /\ level = 0) => level' = 0
      ]_vars

\* C29: previous_page has been called, the table's page and the level are at
\* their floor and the App's page is not
C29_Witness ==
    /\ LastCall = "previous_page"
    /\ page = 1
    /\ level = 0
    /\ app_page = MaxPage

(***************************************************************************)
(* C30  Equality and ordering agree: for all records a and b, a == b holds *)
(* exactly when cmp(a, b) is Equal.                                        *)
(***************************************************************************)
\* C30 as claimed: any two records of the table are == if and only if their
\* comparison is Equal
C30_AsClaimed ==
    \A i, j \in 1..Len(items) :
        EqualityOf[items[i]][items[j]] <=> (cmp(items[i], items[j]) = "Equal")

====
